---------------------------- MODULE Spec2Model ----------------------------
(***************************************************************************)
(* Model of the health-metrics ingestion function (cloud-function/main.py, *)
(* validators.py, models.py): request admission, per-record MERGE upsert   *)
(* inside one transaction per request, commit / rollback and the response  *)
(* classification.                                                         *)
(*                                                                         *)
(* JSON values are tagged records [t, v]: t is the JSON/Python type, v an  *)
(* integer payload (the number; 1/0 for true/false; the identity of a      *)
(* string with 0 the empty string; the size of a list or object).          *)
(* Violation and error messages, which the code builds with f-strings, are *)
(* records carrying the same parts (record index, field, kind).            *)
(***************************************************************************)
EXTENDS Integers, Sequences, FiniteSets, TLC

\* ------------------------------------------------------------------ bounds
MaxBatch == 2         \* longest metrics list a request carries
MaxRequests == 2      \* requests handled in one behaviour
TsLimit == 5          \* stand-in (scaled) for the last epoch-ms datetime can hold
Margin == 2           \* how far beyond each limit the validators are probed
LongBatch == 6        \* longest list of the batches that can exceed the error cap

Workers == {1, 2}

\* --------------------------------------------------------------- JSON values
NullV == [t |-> "null", v |-> 0]
IntV(n) == [t |-> "int", v |-> n]
FloatV(n) == [t |-> "float", v |-> n]
BoolV(b) == [t |-> "bool", v |-> IF b THEN 1 ELSE 0]
StrV(n) == [t |-> "str", v |-> n]
ListV(n) == [t |-> "list", v |-> n]
DictV(n) == [t |-> "dict", v |-> n]

\* dict.get(key): the value, or None when the key is absent
Get(m, k) == IF k \in DOMAIN m THEN m[k] ELSE NullV

\* dict.get(key, default)
GetDefault(m, k, d) == IF k \in DOMAIN m THEN m[k] ELSE d

\* Python truthiness of a JSON value (`not x` is its negation)
Truthy(x) == x.t # "null" /\ x.v # 0

\* isinstance(x, (int, float)); bool is a subclass of int
IsNumeric(x) == x.t \in {"int", "float", "bool"}

\* isinstance(x, int)
IsInt(x) == x.t \in {"int", "bool"}

\* isinstance(x, bool)
IsBool(x) == x.t = "bool"

Min(a, b) == IF a < b THEN a ELSE b

\* ------------------------------------------------------------ validators.py
\* The typed checks of validate_metric, in source order.  type: the
\* isinstance test; hi = -1: only the lower bound 0 is checked
\* ("cannot be negative").
FieldRules ==
  << [name |-> "heartRate",    type |-> "numeric", lo |-> 30, hi |-> 220],
     [name |-> "bpSystolic",   type |-> "numeric", lo |-> 60, hi |-> 280],
     [name |-> "bpDiastolic",  type |-> "numeric", lo |-> 30, hi |-> 150],
     [name |-> "spO2",         type |-> "numeric", lo |-> 70, hi |-> 100],
     [name |-> "temperature",  type |-> "numeric", lo |-> 35, hi |-> 41],
     [name |-> "bloodGlucose", type |-> "numeric", lo |-> 50, hi |-> 500],
     [name |-> "steps",        type |-> "integer", lo |-> 0,  hi |-> -1],
     [name |-> "calories",     type |-> "numeric", lo |-> 0,  hi |-> -1],
     [name |-> "distance",     type |-> "numeric", lo |-> 0,  hi |-> -1],
     [name |-> "totalSleep",   type |-> "integer", lo |-> 0,  hi |-> 1440],
     [name |-> "deepSleep",    type |-> "integer", lo |-> 0,  hi |-> 1440],
     [name |-> "lightSleep",   type |-> "integer", lo |-> 0,  hi |-> 1440],
     [name |-> "stress",       type |-> "integer", lo |-> 0,  hi |-> 100],
     [name |-> "met",          type |-> "numeric", lo |-> 0,  hi |-> 20],
     [name |-> "mai",          type |-> "integer", lo |-> 0,  hi |-> 100] >>

Violation(index, field, kind) == [index |-> index, field |-> field, kind |-> kind]

\* As CheckField, the upper limit itself out of range
CheckFieldExclusive(metric, index, rule) ==
  IF rule.name \in DOMAIN metric /\ metric[rule.name].t # "null"
  THEN LET x == metric[rule.name]
           typeOk == IF rule.type = "numeric" THEN IsNumeric(x) ELSE IsInt(x)
           rangeOk == x.v >= rule.lo /\ (rule.hi = -1 \/ x.v < rule.hi)
       IN  IF ~typeOk THEN << Violation(index, rule.name, "type") >>
           ELSE IF ~rangeOk THEN << Violation(index, rule.name, "range") >>
           ELSE << >>
  ELSE << >>

\* One typed-range block: `if f in metric and metric[f] is not None: ...`
CheckField(metric, index, rule) ==
  IF rule.name \in DOMAIN metric /\ metric[rule.name].t # "null"
  THEN LET x == metric[rule.name]
           typeOk == IF rule.type = "numeric" THEN IsNumeric(x) ELSE IsInt(x)
           rangeOk == x.v >= rule.lo /\ (rule.hi = -1 \/ x.v <= rule.hi)
       IN  IF ~typeOk THEN << Violation(index, rule.name, "type") >>
           ELSE IF ~rangeOk THEN << Violation(index, rule.name, "range") >>
           ELSE << >>
  ELSE << >>

RECURSIVE CheckFields(_, _, _)
CheckFields(metric, index, n) ==
  IF n = 0 THEN << >>
  ELSE CheckFields(metric, index, n - 1) \o CheckField(metric, index, FieldRules[n])

\* `timestamp <= 0` raises TypeError when timestamp is a str, list or dict
TimestampRaises(metric) ==
  Get(metric, "timestamp").t \in {"str", "list", "dict"}

\* validate_metric(metric, index): the list of violations; raised = TRUE
\* when the comparison of the timestamp raises.
validate_metric(metric, index) ==
  IF TimestampRaises(metric) THEN [raised |-> TRUE, errors |-> << >>]
  ELSE
  [raised |-> FALSE,
   errors |->
     (IF ~Truthy(Get(metric, "userId"))
        THEN << Violation(index, "userId", "required") >> ELSE << >>)
  \o (IF ~Truthy(Get(metric, "deviceId"))
        THEN << Violation(index, "deviceId", "required") >> ELSE << >>)
  \o (IF Get(metric, "timestamp").t = "null" \/ Get(metric, "timestamp").v <= 0
        THEN << Violation(index, "timestamp", "invalid") >> ELSE << >>)
  \o (IF ~Truthy(Get(metric, "recordHash"))
        THEN << Violation(index, "recordHash", "required") >> ELSE << >>)
  \o CheckFields(metric, index, Len(FieldRules))
  \o (IF "isWearing" \in DOMAIN metric /\ ~IsBool(metric["isWearing"])
        THEN << Violation(index, "isWearing", "type") >> ELSE << >>)]

\* ------------------------------------------------------------ request inputs
\* The records and non-record elements a metrics list is built from.  A
\* metrics list is a sequence of indices into Samples.
Samples ==
  << \* 1: a full reading with natural key (u1, d1, 1, h1)
     [t |-> "dict",
      f |-> [userId |-> StrV(1), deviceId |-> StrV(1), timestamp |-> IntV(1),
             recordHash |-> StrV(1), heartRate |-> IntV(72), steps |-> IntV(10),
             temperature |-> FloatV(36), isWearing |-> BoolV(FALSE)]],
     \* 2: the same natural key, every optional field omitted but one null
     [t |-> "dict",
      f |-> [userId |-> StrV(1), deviceId |-> StrV(1), timestamp |-> IntV(1),
             recordHash |-> StrV(1), steps |-> NullV]],
     \* 3: the same (userId, deviceId, timestamp), another recordHash
     [t |-> "dict",
      f |-> [userId |-> StrV(1), deviceId |-> StrV(1), timestamp |-> IntV(1),
             recordHash |-> StrV(2), heartRate |-> IntV(80), isWearing |-> BoolV(TRUE)]],
     \* 4: passes validation, timestamp beyond what datetime can represent
     [t |-> "dict",
      f |-> [userId |-> StrV(1), deviceId |-> StrV(1), timestamp |-> IntV(TsLimit + 2),
             recordHash |-> StrV(1), heartRate |-> IntV(60)]],
     \* 5: heartRate out of range
     [t |-> "dict",
      f |-> [userId |-> StrV(1), deviceId |-> StrV(1), timestamp |-> IntV(1),
             recordHash |-> StrV(1), heartRate |-> IntV(500)]],
     \* 6: an element that is not an object
     IntV(5),
     \* 7: a timestamp that is a string
     [t |-> "dict",
      f |-> [userId |-> StrV(1), deviceId |-> StrV(1), timestamp |-> StrV(3),
             recordHash |-> StrV(1)]] >>

SampleIds == 1..Len(Samples)

RECURSIVE SeqsUpTo(_, _)
SeqsUpTo(S, n) ==
  IF n = 0 THEN { << >> }
  ELSE LET shorter == SeqsUpTo(S, n - 1)
       IN  shorter \cup { Append(q, x) : q \in { r \in shorter : Len(r) = n - 1 }, x \in S }

\* The parsed request body, by the shape of data and of data['metrics']:
\* kind "empty": the body is empty or null; kind "list": metrics is the list
\* `items`; any other kind: metrics is a JSON value of that type.
Requests ==
  { [kind |-> "list", items |-> q] : q \in SeqsUpTo(SampleIds, MaxBatch) }
  \cup { [kind |-> k, items |-> << >>] : k \in {"empty", "int", "bool", "null", "str", "dict"} }

\* len(metrics) at main.py:263 raises TypeError for a number, boolean or null
LenRaises(request) == request.kind \in {"int", "bool", "null"}

\* One iteration of the loop of validate_batch, on the n-th element
RecordErrors(items, n) ==
  LET metric == Samples[items[n]]
  IN  IF metric.t # "dict"
      THEN [raised |-> FALSE,
            errors |-> << Violation(n - 1, "record", "object") >>]
      ELSE LET one == validate_metric(metric.f, n - 1)
           IN  IF one.raised THEN [raised |-> TRUE, errors |-> << >>]
               ELSE [raised |-> FALSE, errors |-> one.errors]

\* The iterations on the elements lo..hi in index order.  Each iteration
\* reads its own element only, so the range is evaluated by halves (a list of
\* 500 records nests 9 deep); an exception ends the loop and the call.
RECURSIVE ErrorsBetween(_, _, _)
ErrorsBetween(items, lo, hi) ==
  IF lo > hi THEN [raised |-> FALSE, errors |-> << >>]
  ELSE IF lo = hi THEN RecordErrors(items, lo)
  ELSE LET mid == (lo + hi) \div 2
           head == ErrorsBetween(items, lo, mid)
           rest == ErrorsBetween(items, mid + 1, hi)
       IN  IF head.raised \/ rest.raised THEN [raised |-> TRUE, errors |-> << >>]
           ELSE [raised |-> FALSE, errors |-> head.errors \o rest.errors]

\* The loop of validate_batch over the first n elements
BatchErrors(items, n) == ErrorsBetween(items, 1, n)

\* As validate_batch, a list of 500 records already too long
validate_batchOffByOne(request) ==
  IF request.kind # "list"
  THEN [raised |-> FALSE, valid |-> FALSE,
        errors |-> << Violation(-1, "metrics", "array") >>]
  ELSE IF Len(request.items) = 0
  THEN [raised |-> FALSE, valid |-> FALSE,
        errors |-> << Violation(-1, "metrics", "empty") >>]
  ELSE IF Len(request.items) >= 500
  THEN [raised |-> FALSE, valid |-> FALSE,
        errors |-> << Violation(-1, "metrics", "size") >>]
  ELSE LET all == BatchErrors(request.items, Len(request.items))
       IN  [raised |-> all.raised,
            valid |-> ~all.raised /\ Len(all.errors) = 0,
            errors |-> all.errors]

\* validate_batch(metrics): [raised, valid, errors]
validate_batch(request) ==
  IF request.kind # "list"
  THEN [raised |-> FALSE, valid |-> FALSE,
        errors |-> << Violation(-1, "metrics", "array") >>]
  ELSE IF Len(request.items) = 0
  THEN [raised |-> FALSE, valid |-> FALSE,
        errors |-> << Violation(-1, "metrics", "empty") >>]
  ELSE IF Len(request.items) > 500
  THEN [raised |-> FALSE, valid |-> FALSE,
        errors |-> << Violation(-1, "metrics", "size") >>]
  ELSE LET all == BatchErrors(request.items, Len(request.items))
       IN  [raised |-> all.raised,
            valid |-> ~all.raised /\ Len(all.errors) = 0,
            errors |-> all.errors]

\* ------------------------------------------------------ record normalisation
\* datetime.utcfromtimestamp(ts / 1000.0): the instant in microseconds;
\* raises for a value that is no number or lies beyond the date range.
TimestampConverts(ts) == IsNumeric(ts) /\ ts.v <= TsLimit

utcfromtimestamp(ts) == ts.v * 1000

\* The mutable columns of health_data and the request key each is read from.
MutableColumns ==
  << [col |-> "HeartRate",    key |-> "heartRate"],
     [col |-> "BPSystolic",   key |-> "bpSystolic"],
     [col |-> "BPDiastolic",  key |-> "bpDiastolic"],
     [col |-> "SpO2",         key |-> "spO2"],
     [col |-> "Steps",        key |-> "steps"],
     [col |-> "Calories",     key |-> "calories"],
     [col |-> "Distance",     key |-> "distance"],
     [col |-> "Temperature",  key |-> "temperature"],
     [col |-> "BloodGlucose", key |-> "bloodGlucose"],
     [col |-> "TotalSleep",   key |-> "totalSleep"],
     [col |-> "DeepSleep",    key |-> "deepSleep"],
     [col |-> "LightSleep",   key |-> "lightSleep"],
     [col |-> "Stress",       key |-> "stress"],
     [col |-> "MET",          key |-> "met"],
     [col |-> "MAI",          key |-> "mai"] >>

ColumnNames == { MutableColumns[n].col : n \in 1..Len(MutableColumns) } \cup {"IsWearing"}

KeyOfColumn(c) == (CHOOSE n \in 1..Len(MutableColumns) : MutableColumns[n].col = c)

\* As ColumnValue, with metric.get('isWearing', False)
ColumnValueDefaultFalse(metric, c) ==
  IF c = "IsWearing" THEN GetDefault(metric, "isWearing", BoolV(FALSE))
  ELSE Get(metric, MutableColumns[KeyOfColumn(c)].key)

\* The value bound to one mutable column: metric.get(key), and
\* metric.get('isWearing', True) for IsWearing.
ColumnValue(metric, c) ==
  IF c = "IsWearing" THEN GetDefault(metric, "isWearing", BoolV(TRUE))
  ELSE Get(metric, MutableColumns[KeyOfColumn(c)].key)

\* HealthMetric(...) and the params dict built from it
HealthMetric(metric, timestamp) ==
  [user_id |-> Get(metric, "userId"),
   device_id |-> Get(metric, "deviceId"),
   timestamp |-> timestamp,
   record_hash |-> Get(metric, "recordHash"),
   m |-> [c \in ColumnNames |-> ColumnValue(metric, c)]]

\* ------------------------------------------------------------ the MERGE
\* As OnClause, without the comparison of RecordHash
OnClauseNoHash(r, p) ==
  /\ r.UserId = p.user_id
  /\ r.DeviceId = p.device_id
  /\ r.Timestamp = p.timestamp

\* ON target.UserId = source.UserId AND ... AND target.RecordHash = source.RecordHash
OnClause(r, p) ==
  /\ r.UserId = p.user_id
  /\ r.DeviceId = p.device_id
  /\ r.Timestamp = p.timestamp
  /\ r.RecordHash = p.record_hash

\* As WhenMatched, with CreatedAt in the SET list
WhenMatchedSetsCreatedAt(r, p) == [r EXCEPT !.m = p.m, !.CreatedAt = p.timestamp]

\* WHEN MATCHED THEN UPDATE SET <the sixteen mutable columns>
WhenMatched(r, p) == [r EXCEPT !.m = p.m]

\* WHEN NOT MATCHED THEN INSERT: id from the identity column, CreatedAt from
\* the server default getutcdate()
\* As WhenNotMatched, the INSERT leaving RecordHash out of its column list
WhenNotMatchedNoHash(p, id, now) ==
  [id |-> id, UserId |-> p.user_id, DeviceId |-> p.device_id,
   Timestamp |-> p.timestamp, RecordHash |-> NullV,
   CreatedAt |-> now, m |-> p.m]

WhenNotMatched(p, id, now) ==
  [id |-> id, UserId |-> p.user_id, DeviceId |-> p.device_id,
   Timestamp |-> p.timestamp, RecordHash |-> p.record_hash,
   CreatedAt |-> now, m |-> p.m]

\* As Merge, a plain INSERT
MergeInsertOnly(view, p, id, now) ==
  { [id |-> id, UserId |-> p.user_id, DeviceId |-> p.device_id,
     Timestamp |-> p.timestamp, RecordHash |-> p.record_hash,
     CreatedAt |-> now, m |-> p.m] }

\* The statement on the rows the session sees: the rows it writes (the new
\* image of every matched row, or the one inserted row)
Merge(view, p, id, now) ==
  IF \E r \in view : OnClause(r, p)
  THEN { WhenMatched(r, p) : r \in { x \in view : OnClause(x, p) } }
  ELSE { WhenNotMatched(p, id, now) }

RowIds(rows) == { r.id : r \in rows }

\* ------------------------------------------------------------------- state
VARIABLES
  store,           \* the committed rows of health_data
  nextId,          \* the identity column's next value
  clock,           \* the server's getutcdate()
  served,          \* requests received so far
  pc,              \* per worker: idle, session, loop, done
  request,         \* per worker: the parsed body being handled
  i,               \* per worker: index of the next record (0-based, as enumerate)
  inserted_count,  \* per worker
  failed_count,    \* per worker
  errors,          \* per worker: the per-record error messages
  writes,          \* per worker: rows its open transaction inserted or updated
  session,         \* per worker: the SQLAlchemy session and the calls made on it
  response,        \* per worker: the HTTP response, once built
  before,          \* history, per worker: the committed rows when the request arrived
  prev,            \* history: the batch of the latest commit if no record failed
  resubmit,        \* history, per worker: the request repeats the batch prev
  track,           \* history: whether `first` is recorded in this behaviour
  first,           \* history: the batch and the table before the latest request
                   \* that lost its commit or committed with failed records
  vin,             \* the argument of a direct call of a validator
  vout             \* what that call returned

vars == << store, nextId, clock, served, pc, request, i, inserted_count,
           failed_count, errors, writes, session, response, before, prev,
           resubmit, track, first, vin, vout >>

NoRequest == [kind |-> "none", items |-> << >>]

\* `committed`: that attempt committed (with failed records); `again`: it
\* followed a committed attempt of the same batch that left failed records
NoFirst == [items |-> << >>, base |-> {}, committed |-> FALSE, again |-> FALSE]

NoSession == [state |-> "none", executes |-> 0, commits |-> 0, rollbacks |-> 0, closes |-> 0]

\* The texts the store's driver puts in the exceptions it raises
StoreErrorTexts == {1, 2}

\* 'message': str(e) of a response body.  of: what raised e ("store": the
\* driver; "batch": the Exception insert_or_update_metrics wraps the driver's
\* in; "python": the interpreter); text: the driver's text e carries, 0 if none
NoMessage == [of |-> "", text |-> 0]

Message(of, text) == [of |-> of, text |-> text]

NoResponse ==
  [status |-> 0, error |-> "", success |-> FALSE, syncedCount |-> 0,
   failedCount |-> 0, errors |-> << >>, details |-> << >>,
   message |-> NoMessage, correlationId |-> FALSE]

\* jsonify({'error': ..., 'message': str(e)}), 500 of the database step and,
\* with the correlation id, of the handler's outermost except
FailureResponse(error, message, correlationId) ==
  [NoResponse EXCEPT !.status = 500, !.error = error, !.message = message,
                     !.correlationId = correlationId]

\* jsonify({'error': ..., ...}), status
ErrorResponse(status, error, details) ==
  [NoResponse EXCEPT !.status = status, !.error = error, !.details = details]

\* What a session reads of the table.  A statement matches the committed rows
\* and the rows its own transaction wrote.  A row another session inserted
\* and has not committed is not matched: the MERGE has no HOLDLOCK hint and
\* takes no key-range lock, so the search and the insert of two statements on
\* a key that has no row are not serialised, and health_data declares no
\* unique constraint on the natural key that would reject the second insert.

\* As Visible, without the session's own uncommitted writes
VisibleCommittedOnly(w) == store

\* The rows a session's statements see: the committed rows, with its own
\* uncommitted writes in place of the rows they replace.
Visible(w) == { r \in store : r.id \notin RowIds(writes[w]) } \cup writes[w]

\* ----------------------------------------------- direct calls of the validators
\* A call of validate_metric on a record that is valid but for one field
\* (op "metric": the field and its value; field "": nothing added), or of
\* validate_batch on a list of n valid records (op "batch").
Case(op, field, val, n) == [op |-> op, field |-> field, val |-> val, n |-> n]

NoCase == Case("none", "", NullV, 0)

NoOut == [called |-> FALSE, raised |-> FALSE, valid |-> FALSE, errors |-> << >>]

\* The record every metric case starts from: the required fields only
BaseMetric ==
  [userId |-> StrV(1), deviceId |-> StrV(1), timestamp |-> IntV(1),
   recordHash |-> StrV(1)]

MetricWith(field, val) ==
  IF field = "" THEN BaseMetric
  ELSE [k \in DOMAIN BaseMetric \cup {field} |->
          IF k = field THEN val ELSE BaseMetric[k]]

RuleNames == { FieldRules[k].name : k \in 1..Len(FieldRules) }

FieldNames ==
  RuleNames \cup {"isWearing", "userId", "deviceId", "timestamp", "recordHash"}

\* One value of every JSON type that is not a number
TypeValues ==
  { NullV, BoolV(TRUE), BoolV(FALSE), StrV(0), StrV(1), ListV(0), ListV(1),
    DictV(0), DictV(1) }

\* The integers around and between the limits of a typed check
ProbeInts(rule) ==
  IF rule.hi = -1
  THEN ((rule.lo - Margin)..(rule.lo + Margin)) \cup {rule.lo + 100000}
  ELSE (rule.lo - Margin)..(rule.hi + Margin)

MetricCases ==
  { Case("metric", "", NullV, 0) }
  \cup { Case("metric", f, v, 0) : f \in FieldNames, v \in TypeValues }
  \cup UNION { { Case("metric", FieldRules[k].name, IntV(x), 0) :
                   x \in ProbeInts(FieldRules[k]) } : k \in 1..Len(FieldRules) }
  \cup UNION { { Case("metric", FieldRules[k].name, FloatV(x), 0) :
                   x \in {FieldRules[k].lo - 1, FieldRules[k].lo} } :
               k \in 1..Len(FieldRules) }
  \cup { Case("metric", f, v, 0) :
           f \in {"isWearing", "userId", "deviceId", "timestamp", "recordHash"},
           v \in { IntV(x) : x \in (0 - Margin)..Margin }
                 \cup { FloatV(x) : x \in (0 - Margin)..Margin } }

\* The batch lengths around the two limits of validate_batch
BatchSizes == (0..Margin) \cup ((500 - Margin)..(500 + Margin))

BatchCases == { Case("batch", "", NullV, n) : n \in BatchSizes }

\* The list of n copies of the first sample, a valid record
BatchOf(n) == [kind |-> "list", items |-> [j \in 1..n |-> 1]]

\* The table after one submission of the batch `items` in which every
\* statement and the commit succeed, started on the table `view`
RECURSIVE SingleRun(_, _, _, _)
SingleRun(view, items, id, now) ==
  IF items = << >> THEN view
  ELSE LET metric == Samples[Head(items)].f
           p == HealthMetric(metric, utcfromtimestamp(metric["timestamp"]))
           written == Merge(view, p, id, now)
           after == { r \in view : r.id \notin RowIds(written) } \cup written
       IN  SingleRun(after, Tail(items),
                     IF id \in RowIds(written) THEN id + 1 ELSE id, now)

\* The service started on a table that holds the rows `table`, the ids
\* 1..Cardinality(table) being taken
StartedOn(table, recording) ==
  /\ track = recording
  /\ first = NoFirst
  /\ store = table
  /\ nextId = Cardinality(table) + 1
  /\ clock = 0
  /\ served = 0
  /\ pc = [w \in Workers |-> "idle"]
  /\ request = [w \in Workers |-> NoRequest]
  /\ i = [w \in Workers |-> 0]
  /\ inserted_count = [w \in Workers |-> 0]
  /\ failed_count = [w \in Workers |-> 0]
  /\ errors = [w \in Workers |-> << >>]
  /\ writes = [w \in Workers |-> {}]
  /\ session = [w \in Workers |-> NoSession]
  /\ response = [w \in Workers |-> NoResponse]
  /\ before = [w \in Workers |-> {}]
  /\ prev = << >>
  /\ resubmit = [w \in Workers |-> FALSE]

Started(recording) == StartedOn({}, recording)

Init == Started(FALSE) /\ vin = NoCase /\ vout = NoOut

\* --------------------------------------------------------- uploadHealthMetrics
\* Steps 1 and 2 of the handler: parse, log the size, validate.
Admission(r) ==
  IF r.kind = "empty"
    THEN ErrorResponse(400, "Invalid request: empty body", << >>)
  ELSE IF LenRaises(r) \/ validate_batch(r).raised
    THEN FailureResponse("Internal server error", Message("python", 0), TRUE)
  ELSE IF ~validate_batch(r).valid
    THEN ErrorResponse(400, "Validation failed",
                       SubSeq(validate_batch(r).errors, 1,
                              Min(10, Len(validate_batch(r).errors))))
  ELSE NoResponse

Receive(w, r) ==
  /\ pc[w] = "idle"
  /\ served < MaxRequests
  /\ served' = served + 1
  /\ clock' = clock + 1
  /\ request' = [request EXCEPT ![w] = r]
  /\ before' = [before EXCEPT ![w] = store]
  /\ resubmit' = [resubmit EXCEPT ![w] =
                    r.kind = "list" /\ r.items # << >> /\ r.items = prev]
  /\ response' = [response EXCEPT ![w] = Admission(r)]
  /\ pc' = [pc EXCEPT ![w] = IF Admission(r) = NoResponse THEN "session" ELSE "done"]
  /\ UNCHANGED << store, nextId, i, inserted_count, failed_count, errors,
                  writes, session, prev, track, first, vin, vout >>

\* session = create_session(); it raises when the engine cannot be built
CreateSession(w) ==
  /\ pc[w] = "session"
  /\ \/ /\ session' = [session EXCEPT ![w].state = "open"]
        /\ pc' = [pc EXCEPT ![w] = "loop"]
        /\ UNCHANGED response
     \/ \E e \in StoreErrorTexts :
          /\ response' = [response EXCEPT ![w] =
                            FailureResponse("Database insertion failed",
                                            Message("store", e), FALSE)]
          /\ pc' = [pc EXCEPT ![w] = "done"]
          /\ UNCHANGED session
  /\ UNCHANGED << store, nextId, clock, served, request, i, inserted_count,
                  failed_count, errors, writes, before, prev, resubmit, track,
                  first, vin, vout >>

\* ---------------------------------------------------- insert_or_update_metrics
\* The rows session w has written after one more MERGE with params p
WritesAfter(w, p) ==
  LET written == Merge(Visible(w), p, nextId, clock)
  IN  { r \in writes[w] : r.id \notin RowIds(written) } \cup written

RecordFails(w, kind) ==
  /\ failed_count' = [failed_count EXCEPT ![w] = @ + 1]
  /\ errors' = [errors EXCEPT ![w] = Append(@, [index |-> i[w], kind |-> kind])]
  /\ UNCHANGED << inserted_count, writes, nextId >>

\* One iteration of the for loop: convert, build the params, execute the MERGE
Execute(w) ==
  /\ pc[w] = "loop"
  /\ i[w] < Len(request[w].items)
  /\ LET metric == Samples[request[w].items[i[w] + 1]].f
     IN  IF ~TimestampConverts(metric["timestamp"])
         THEN /\ RecordFails(w, "timestamp")
              /\ UNCHANGED session
         ELSE \E rejected \in BOOLEAN :
                /\ session' = [session EXCEPT ![w].executes = @ + 1]
                /\ IF rejected
                   THEN RecordFails(w, "store")
                   ELSE LET p == HealthMetric(metric, utcfromtimestamp(metric["timestamp"]))
                        IN  /\ writes' = [writes EXCEPT ![w] = WritesAfter(w, p)]
                            /\ nextId' = IF nextId \in RowIds(WritesAfter(w, p))
                                         THEN nextId + 1 ELSE nextId
                            /\ inserted_count' = [inserted_count EXCEPT ![w] = @ + 1]
                            /\ UNCHANGED << failed_count, errors >>
  /\ i' = [i EXCEPT ![w] = @ + 1]
  /\ UNCHANGED << store, clock, served, pc, request, response, before, prev,
                  resubmit, track, first, vin, vout >>

\* As Close, session.close() not called
CloseSkipped(s) == s

\* `finally: session.close()`
Close(s) == [s EXCEPT !.closes = @ + 1, !.state = "closed"]

\* The dict insert_or_update_metrics returns after a commit
\* As Result, inserted counting the rows the transaction wrote
ResultCountsRows(w) ==
  [success |-> failed_count[w] = 0,
   inserted |-> Cardinality(writes[w]),
   failed |-> failed_count[w],
   errors |-> SubSeq(errors[w], 1, Min(5, Len(errors[w])))]

\* As Result, the whole list of errors returned
ResultUncapped(w) ==
  [success |-> failed_count[w] = 0,
   inserted |-> inserted_count[w],
   failed |-> failed_count[w],
   errors |-> errors[w]]

Result(w) ==
  [success |-> failed_count[w] = 0,
   inserted |-> inserted_count[w],
   failed |-> failed_count[w],
   errors |-> SubSeq(errors[w], 1, Min(5, Len(errors[w])))]

\* As StatusCode, without the branch for a total failure
StatusCodeNoTotalFailure(result) ==
  IF result.success THEN 200 ELSE 207

\* Step 5 of the handler
StatusCode(result) ==
  IF result.success THEN 200
  ELSE IF result.inserted > 0 THEN 207
  ELSE 500

\* Step 4 of the handler
SyncResponse(result) ==
  [status |-> StatusCode(result), error |-> "", success |-> result.success,
   syncedCount |-> result.inserted, failedCount |-> result.failed,
   errors |-> result.errors, details |-> << >>,
   message |-> NoMessage, correlationId |-> TRUE]

\* As Committed, the transaction kept only when no record failed
CommittedIfNoFailure(w) ==
  IF failed_count[w] = 0
  THEN { r \in store : r.id \notin RowIds(writes[w]) } \cup writes[w]
  ELSE store

\* The committed rows after session w commits
Committed(w) == { r \in store : r.id \notin RowIds(writes[w]) } \cup writes[w]

\* session.commit() succeeds; the result is returned and answered
Commit(w) ==
  /\ pc[w] = "loop"
  /\ i[w] = Len(request[w].items)
  /\ store' = Committed(w)
  /\ writes' = [writes EXCEPT ![w] = {}]
  /\ session' = [session EXCEPT ![w] = Close([@ EXCEPT !.commits = @ + 1])]
  /\ response' = [response EXCEPT ![w] = SyncResponse(Result(w))]
  /\ prev' = IF failed_count[w] = 0 THEN request[w].items ELSE << >>
  /\ first' = IF track /\ failed_count[w] > 0
              THEN [items |-> request[w].items, base |-> before[w],
                    committed |-> TRUE,
                    again |-> first.committed /\ first.items = request[w].items]
              ELSE first
  /\ pc' = [pc EXCEPT ![w] = "done"]
  /\ UNCHANGED << nextId, clock, served, request, i, inserted_count,
                  failed_count, errors, before, resubmit, track, vin, vout >>

\* As RolledBack, the writes of the transaction kept
RolledBackKeepsWrites(w) == { r \in store : r.id \notin RowIds(writes[w]) } \cup writes[w]

\* The committed rows after session w rolls back
RolledBack(w) == store

\* session.commit() raises: rollback (which may raise too), close, and the
\* exception reaches the handler's `except` around the database step
CommitFails(w) ==
  /\ pc[w] = "loop"
  /\ i[w] = Len(request[w].items)
  /\ store' = RolledBack(w)
  /\ writes' = [writes EXCEPT ![w] = {}]
  /\ session' = [session EXCEPT ![w] =
                    Close([@ EXCEPT !.commits = @ + 1, !.rollbacks = @ + 1])]
  /\ \E e \in StoreErrorTexts : \E rollbackRaises \in BOOLEAN :
       response' = [response EXCEPT ![w] =
                      FailureResponse("Database insertion failed",
                                      Message(IF rollbackRaises THEN "store"
                                              ELSE "batch", e), FALSE)]
  /\ first' = IF track
              THEN [items |-> request[w].items, base |-> before[w],
                    committed |-> FALSE, again |-> FALSE]
              ELSE first
  /\ pc' = [pc EXCEPT ![w] = "done"]
  /\ UNCHANGED << nextId, clock, served, request, i, inserted_count,
                  failed_count, errors, before, prev, resubmit, track,
                  vin, vout >>

\* The response is sent; the worker is free for the next request
Return(w) ==
  /\ pc[w] = "done"
  /\ pc' = [pc EXCEPT ![w] = "idle"]
  /\ request' = [request EXCEPT ![w] = NoRequest]
  /\ i' = [i EXCEPT ![w] = 0]
  /\ inserted_count' = [inserted_count EXCEPT ![w] = 0]
  /\ failed_count' = [failed_count EXCEPT ![w] = 0]
  /\ errors' = [errors EXCEPT ![w] = << >>]
  /\ session' = [session EXCEPT ![w] = NoSession]
  /\ response' = [response EXCEPT ![w] = NoResponse]
  /\ before' = [before EXCEPT ![w] = {}]
  /\ resubmit' = [resubmit EXCEPT ![w] = FALSE]
  /\ first' = IF session[w].rollbacks = 1
                  \/ (session[w].commits = 1 /\ failed_count[w] > 0)
              THEN first ELSE NoFirst
  /\ UNCHANGED << store, nextId, clock, served, writes, prev, track,
                  vin, vout >>

\* ----------------------------------------------------------- specifications
\* Requests handled one at a time
Idle == \A w \in Workers : pc[w] = "idle"

ReceiveAlone(w, r) == Idle /\ Receive(w, r)

Next ==
  \/ \E r \in Requests : ReceiveAlone(1, r)
  \/ CreateSession(1)
  \/ Execute(1)
  \/ Commit(1)
  \/ CommitFails(1)
  \/ Return(1)

Spec == Init /\ [][Next]_vars

\* The batches whose earlier, fully successful submission filled the table
\* the service is started on
SeedBatches == { << >>, << 2 >>, << 3 >>, << 2, 3 >> }

\* The tables those submissions leave: the rows of the INSERT arm of the
\* MERGE, with the ids 1, 2, ... and the CreatedAt of the start
SeedTables == { SingleRun({}, q, 1, 0) : q \in SeedBatches }

\* The same on a table that earlier requests have filled, the latest attempt
\* that failed or left failed records being recorded in `first`
InitRetry ==
  /\ \E table \in SeedTables : StartedOn(table, TRUE)
  /\ vin = NoCase /\ vout = NoOut

\* The requests that reach the store, by the readings they are made of
RequestsOf(ids) ==
  { q \in Requests : /\ q.kind = "list" /\ q.items # << >>
                     /\ \A n \in 1..Len(q.items) : q.items[n] \in ids }

NextRetry ==
  \/ \E r \in RequestsOf({1, 3}) : ReceiveAlone(1, r)
  \/ CreateSession(1)
  \/ Execute(1)
  \/ Commit(1)
  \/ CommitFails(1)
  \/ Return(1)

SpecRetry == InitRetry /\ [][NextRetry]_vars

\* Requests handled by concurrent workers, each in its own transaction
NextConc ==
  \E w \in Workers :
    \/ \E r \in Requests : Receive(w, r)
    \/ CreateSession(w)
    \/ Execute(w)
    \/ Commit(w)
    \/ CommitFails(w)
    \/ Return(w)

SpecConc == Init /\ [][NextConc]_vars

\* Batches long enough for more than five records to fail: n copies of the
\* first sample, or the unconvertible sample 4 alternating with it
LongRequests ==
  { [kind |-> "list", items |-> [j \in 1..n |-> 1]] : n \in 1..LongBatch }
  \cup { [kind |-> "list", items |-> [j \in 1..n |-> IF j % 2 = 1 THEN 4 ELSE 1]] :
           n \in 1..LongBatch }

NextLong ==
  \/ \E r \in LongRequests : ReceiveAlone(1, r)
  \/ CreateSession(1)
  \/ Execute(1)
  \/ Commit(1)
  \/ CommitFails(1)
  \/ Return(1)

SpecLong == Init /\ [][NextLong]_vars

\* The validators called on their own, one call per behaviour
InitValidate ==
  /\ Started(FALSE)
  /\ vin \in MetricCases \cup BatchCases
  /\ vout = NoOut

handlerVars ==
  << store, nextId, clock, served, pc, request, i, inserted_count,
     failed_count, errors, writes, session, response, before, prev,
     resubmit, track, first >>

ValidateMetric ==
  /\ vin.op = "metric" /\ ~vout.called
  /\ LET out == validate_metric(MetricWith(vin.field, vin.val), 0)
     IN  vout' = [called |-> TRUE, raised |-> out.raised,
                  valid |-> ~out.raised /\ out.errors = << >>,
                  errors |-> out.errors]
  /\ UNCHANGED << handlerVars, vin >>

ValidateBatch ==
  /\ vin.op = "batch" /\ ~vout.called
  /\ LET out == validate_batch(BatchOf(vin.n))
     IN  vout' = [called |-> TRUE, raised |-> out.raised, valid |-> out.valid,
                  errors |-> out.errors]
  /\ UNCHANGED << handlerVars, vin >>

NextValidate == ValidateMetric \/ ValidateBatch

SpecValidate == InitValidate /\ [][NextValidate]_vars

\* ------------------------------------------------------------------ claims
NaturalKey(r) == << r.UserId, r.DeviceId, r.Timestamp, r.RecordHash >>

\* The record at (0-based) index j of worker w's batch, and its natural key
MetricAt(w, j) == Samples[request[w].items[j + 1]].f

MetricKey(metric) ==
  << Get(metric, "userId"), Get(metric, "deviceId"),
     utcfromtimestamp(metric["timestamp"]), Get(metric, "recordHash") >>

BatchLen(w) == Len(request[w].items)

\* Indices of the batch whose write failed / executed without error
FailedIdx(w) == { errors[w][n].index : n \in 1..Len(errors[w]) }

Succeeded(w) == { j \in 0..(BatchLen(w) - 1) : j \notin FailedIdx(w) }

\* Worker w has answered a request whose transaction committed
AnsweredCommitted(w) ==
  pc[w] = "done" /\ session[w].commits = 1 /\ session[w].rollbacks = 0

\* Worker w has answered a request whose commit failed
AnsweredRolledBack(w) == pc[w] = "done" /\ session[w].rollbacks = 1

\* What the claims compare of a table: natural key and mutable fields per row
Content(rows) == { [key |-> NaturalKey(r), m |-> r.m] : r \in rows }

\* Worker w has answered a committed run of the batch that the preceding
\* request also ran and committed, with or without failed records
RanAgain(w) ==
  /\ AnsweredCommitted(w)
  /\ request[w].kind = "list" /\ request[w].items # << >>
  /\ \/ resubmit[w]
     \/ IF failed_count[w] = 0
        THEN first.committed /\ first.items = request[w].items
        ELSE first.again

\* C1 as stated: every committing run of a batch that follows a committing
\* run of the same batch leaves the table with the same natural keys, the
\* same mutable values per key and no additional row.
C1_EveryCommittingRun ==
  \A w \in Workers :
    RanAgain(w)
      => /\ Content(store) = Content(before[w])
         /\ Cardinality(store) = Cardinality(before[w])

\* C1: a validated batch that was committed without a failed record and is
\* submitted again, again committing without a failed record, leaves the
\* table with the same natural keys, the same mutable values per key and no
\* additional row, whatever the table held before the first of the two runs.
C1_Idempotent ==
  \A w \in Workers :
    (AnsweredCommitted(w) /\ resubmit[w] /\ FailedIdx(w) = {})
      => /\ Content(store) = Content(before[w])
         /\ Cardinality(store) = Cardinality(before[w])

\* The batch of samples 1 and 3 has run twice without a failed record on a
\* table that held the reading of sample 2 from the start: the first run
\* overwrote that row and inserted one, the second changed nothing
C1_Witness ==
  /\ AnsweredCommitted(1) /\ resubmit[1] /\ FailedIdx(1) = {}
  /\ request[1].items = << 1, 3 >>
  /\ Cardinality(store) = 2
  /\ \E r \in store : r.CreatedAt = 0 /\ r.m = HealthMetric(Samples[1].f, 0).m

\* C2: with requests handled one at a time, the committed table never holds
\* two rows with the same (UserId, DeviceId, Timestamp, RecordHash).
C2_NaturalKeyUnique ==
  \A r1 \in store : \A r2 \in store : NaturalKey(r1) = NaturalKey(r2) => r1 = r2

C2_Witness ==
  /\ AnsweredCommitted(1)
  /\ Cardinality(store) = 2
  /\ \E r \in before[1] : \E j \in Succeeded(1) : NaturalKey(r) = MetricKey(MetricAt(1, j))

\* C3: an upsert that hits an existing natural key leaves that row's id and
\* CreatedAt as they were; rows of new keys get a fresh id and the CreatedAt
\* of the request that inserted them.
C3_CreatedAtWriteOnce ==
  \A w \in Workers :
    AnsweredCommitted(w) =>
      /\ \A r \in before[w] :
           \E r2 \in store : /\ NaturalKey(r2) = NaturalKey(r)
                             /\ r2.id = r.id
                             /\ r2.CreatedAt = r.CreatedAt
      /\ \A r2 \in store :
           (\A r \in before[w] : NaturalKey(r) # NaturalKey(r2))
             => r2.CreatedAt = clock /\ r2.id \notin RowIds(before[w])

C3_Witness ==
  /\ AnsweredCommitted(1)
  /\ \E r \in before[1] : \E r2 \in store :
       /\ NaturalKey(r2) = NaturalKey(r)
       /\ r2.m # r.m
       /\ r.CreatedAt < clock

\* C4: records that share (userId, deviceId, timestamp) and differ in
\* recordHash are stored as distinct rows, and an upsert changes no field of
\* a row whose natural key it does not carry.
C4_Versioning ==
  \A w \in Workers :
    AnsweredCommitted(w) =>
      /\ \A j \in Succeeded(w) :
           \E r \in store : NaturalKey(r) = MetricKey(MetricAt(w, j))
      /\ \A r \in before[w] :
           (\A j \in Succeeded(w) : MetricKey(MetricAt(w, j)) # NaturalKey(r))
             => r \in store

C4_Witness ==
  /\ AnsweredCommitted(1)
  /\ \E r \in before[1] : \E j \in Succeeded(1) :
       /\ r.UserId = Get(MetricAt(1, j), "userId")
       /\ r.DeviceId = Get(MetricAt(1, j), "deviceId")
       /\ r.Timestamp = utcfromtimestamp(MetricAt(1, j)["timestamp"])
       /\ r.RecordHash # Get(MetricAt(1, j), "recordHash")
       /\ r \in store
  /\ Cardinality(store) = 2

\* C5: after a committed batch, the row of every key written holds, in each
\* mutable column, the value of the last record of that key written in the
\* batch (as bound to the statement): null where the record omits the field,
\* true for an omitted isWearing.
C5_LastWriteWins ==
  \A w \in Workers :
    AnsweredCommitted(w) =>
      \A j \in Succeeded(w) :
        (\A j2 \in Succeeded(w) :
           j2 > j => MetricKey(MetricAt(w, j2)) # MetricKey(MetricAt(w, j)))
        => \E r \in store :
             /\ NaturalKey(r) = MetricKey(MetricAt(w, j))
             /\ \A n \in 1..Len(MutableColumns) :
                  r.m[MutableColumns[n].col] =
                    IF MutableColumns[n].key \in DOMAIN MetricAt(w, j)
                    THEN MetricAt(w, j)[MutableColumns[n].key]
                    ELSE NullV
             /\ r.m["IsWearing"] =
                  IF "isWearing" \in DOMAIN MetricAt(w, j)
                  THEN MetricAt(w, j)["isWearing"]
                  ELSE BoolV(TRUE)

C5_Witness ==
  /\ AnsweredCommitted(1)
  /\ request[1].items = << 1, 2 >>
  /\ Succeeded(1) = {0, 1}
  /\ \E r \in before[1] : r.m["HeartRate"] = IntV(72)
  /\ \E r \in store : r.m["HeartRate"] = NullV /\ r.m["IsWearing"] = BoolV(TRUE)

\* C6: when the store rejects some but not all record writes and the commit
\* succeeds, every record was attempted, there was one commit and no
\* rollback, the counts are n - |F| and |F|, the rows of the records outside
\* F are committed, and the status is 207.
C6_PartialSuccess ==
  \A w \in Workers :
    (AnsweredCommitted(w) /\ FailedIdx(w) # {} /\ Succeeded(w) # {})
      => /\ i[w] = BatchLen(w)
         /\ response[w].syncedCount = BatchLen(w) - Cardinality(FailedIdx(w))
         /\ response[w].failedCount = Cardinality(FailedIdx(w))
         /\ response[w].status = 207
         /\ \A j \in Succeeded(w) :
              \E r \in store : NaturalKey(r) = MetricKey(MetricAt(w, j))

C6_Witness ==
  /\ AnsweredCommitted(1)
  /\ request[1].items = << 1, 3 >>
  /\ FailedIdx(1) = {0}
  /\ before[1] = {}
  /\ Cardinality(store) = 1
  /\ response[1].status = 207

\* C7: when the commit fails, the committed table is what it was before the
\* batch, nothing of the batch stays pending, and the answer is one
\* batch-level failure: status 500, no counts.
C7_CommitFailureRollsBack ==
  \A w \in Workers :
    AnsweredRolledBack(w)
      => /\ store = before[w]
         /\ writes[w] = {}
         /\ response[w].status = 500
         /\ response[w].error = "Database insertion failed"
         /\ ~response[w].success
         /\ response[w].syncedCount = 0
         /\ response[w].failedCount = 0
         /\ response[w].errors = << >>

C7_Witness ==
  /\ AnsweredRolledBack(1)
  /\ inserted_count[1] = 2
  /\ failed_count[1] = 0
  /\ before[1] # {}
  /\ nextId > 2

\* C9: for a committed batch the status is 200 exactly when nothing failed
\* (then success is true and syncedCount is the batch length), 207 exactly
\* when some record was written and some failed, 500 exactly when none was
\* written; success is true only with 200.
C9_StatusClassification ==
  \A w \in Workers :
    AnsweredCommitted(w)
      => /\ response[w].status \in {200, 207, 500}
         /\ (response[w].status = 200) <=> (response[w].failedCount = 0)
         /\ (response[w].status = 200)
              => response[w].success /\ response[w].syncedCount = BatchLen(w)
         /\ (response[w].status = 207)
              <=> (response[w].syncedCount > 0 /\ response[w].failedCount > 0)
         /\ (response[w].status = 500) <=> (response[w].syncedCount = 0)
         /\ response[w].success => response[w].status = 200

C9_Witness ==
  /\ AnsweredCommitted(1)
  /\ response[1].status = 500
  /\ response[1].failedCount = 2
  /\ store = before[1]

\* C8: a request whose metrics value fails validate_batch is answered 400
\* with no session opened, no statement executed and the table unchanged.
C8_ValidationGate ==
  \A w \in Workers :
    (/\ pc[w] = "done"
     /\ request[w].kind # "empty"
     /\ ~validate_batch(request[w]).raised
     /\ ~validate_batch(request[w]).valid)
      => /\ response[w].status = 400
         /\ session[w] = NoSession
         /\ writes[w] = {}
         /\ store = before[w]

\* C10: when two workers have each committed a record of the same natural
\* key, the table holds exactly one row of that key, and its mutable columns
\* are those of one of the records submitted with that key.
C10_SameKeyConcurrency ==
  \A w1 \in Workers : \A w2 \in Workers \ {w1} :
    (AnsweredCommitted(w1) /\ AnsweredCommitted(w2)) =>
      \A j1 \in Succeeded(w1) : \A j2 \in Succeeded(w2) :
        MetricKey(MetricAt(w1, j1)) = MetricKey(MetricAt(w2, j2)) =>
          LET k == MetricKey(MetricAt(w1, j1))
              rows == { r \in store : NaturalKey(r) = k }
          IN  /\ Cardinality(rows) = 1
              /\ \A r \in rows :
                   \E w \in {w1, w2} : \E j \in Succeeded(w) :
                     /\ MetricKey(MetricAt(w, j)) = k
                     /\ r.m = HealthMetric(MetricAt(w, j), k[3]).m


\* Worker w has answered the fully successful resubmission of the batch whose
\* previous submission lost its commit or committed with failed records
RetriedOk(w) ==
  /\ AnsweredCommitted(w) /\ failed_count[w] = 0
  /\ request[w].kind = "list" /\ request[w].items # << >>
  /\ first.items = request[w].items

\* C12: when a batch whose submission lost its commit or was committed with
\* failed records is resubmitted whole and every record then succeeds, the
\* table holds what one fully successful submission on the table of before
\* the first attempt leaves: the same natural keys with the same row values,
\* as many rows (no duplicate), every row stored before keeps its id, key
\* and CreatedAt, and a stored row whose key the batch does not name is
\* left as it was.  (The ids and CreatedAt of the rows the batch inserts
\* are assigned by the store and are not part of the comparison.)
C12_SafeRetry ==
  \A w \in Workers :
    RetriedOk(w) =>
      LET once == SingleRun(first.base, request[w].items, nextId, clock)
      IN  /\ Content(store) = Content(once)
          /\ Cardinality(store) = Cardinality(once)
          /\ \A r \in first.base :
               \E x \in store : /\ x.id = r.id /\ x.CreatedAt = r.CreatedAt
                                /\ NaturalKey(x) = NaturalKey(r)
          /\ \A r \in first.base :
               (\A j \in 0..(BatchLen(w) - 1) :
                  MetricKey(MetricAt(w, j)) # NaturalKey(r)) => r \in store

\* The table held one row.  A two-record batch was committed with a failed
\* record, which changed the table, then resubmitted with success: the
\* stored row has the values of the batch under its id and CreatedAt, and
\* the table holds two rows
C12_Witness ==
  /\ RetriedOk(1) /\ BatchLen(1) = 2
  /\ first.committed /\ Cardinality(first.base) = 1
  /\ before[1] # first.base
  /\ Cardinality(store) = 2
  /\ \E r \in first.base : \E x \in store :
       x.id = r.id /\ x.CreatedAt = r.CreatedAt /\ x.m # r.m


\* Worker w has answered with the body of a failed database step or of an
\* unexpected error
AnsweredFailure(w) ==
  /\ pc[w] = "done"
  /\ response[w].error \in {"Database insertion failed", "Internal server error"}

\* C13: the body of a 500 answer to a failed commit, a failed session
\* creation or an unexpected error carries the correlation id and nothing of
\* the text of the store's exception, so two runs that differ only in that
\* text answer the same body.  (Fails: 'message' is str(e), the driver's text,
\* and the body of the database step has no correlationId.)
C13_NoStoreTextInBody ==
  \A w \in Workers :
    AnsweredFailure(w) =>
      /\ response[w].status = 500
      /\ response[w].message.text = 0
      /\ response[w].correlationId


\* The metrics value r is structurally malformed: not a list, an empty list
\* or a list with an element that is not an object
Structural(r) ==
  \/ r.kind \in {"int", "bool", "null", "str", "dict"}
  \/ /\ r.kind = "list"
     /\ \/ r.items = << >>
        \/ \E n \in 1..Len(r.items) : Samples[r.items[n]].t # "dict"

\* C14: for a structurally malformed metrics value validate_batch returns
\* "rejected" with a list of exactly one violation, whatever the other
\* elements are and however many are not objects.  (Fails: an element that
\* is not an object adds its violation and the loop goes on to the siblings.)
C14_StructuralShortCircuit ==
  \A w \in Workers :
    (pc[w] # "idle" /\ Structural(request[w]) /\ ~validate_batch(request[w]).raised) =>
      /\ ~validate_batch(request[w]).valid
      /\ Len(validate_batch(request[w]).errors) = 1


\* C15: a request whose metrics value is a number, a boolean, null, a string
\* or an object is answered 400 with the violation list and no session is
\* created.  (Fails for a number, a boolean and null: len(metrics) in the
\* log line raises before validate_batch is called, and the answer is 500.)
C15_MalformedMetricsRejected ==
  \A w \in Workers :
    (pc[w] = "done" /\ request[w].kind \in {"int", "bool", "null", "str", "dict"}) =>
      /\ response[w].status = 400
      /\ response[w].error = "Validation failed"
      /\ Len(response[w].details) = 1
      /\ session[w] = NoSession


\* C16: validate_metric returns a list of violations and never raises, for
\* every record whose fields hold values of any JSON type.  (Fails: for a
\* timestamp that is a string, an array or an object `timestamp <= 0`
\* raises TypeError.)
C16_ValidateMetricTotal ==
  (vin.op = "metric" /\ vout.called) => ~vout.raised

\* C17: a batch of n records that each pass validate_metric is accepted by
\* validate_batch exactly when 1 <= n <= 500; an empty batch and a batch of
\* more than 500 are rejected with one violation, about the size.
C17_BatchSizeAdmission ==
  (vin.op = "batch" /\ vout.called) =>
    /\ ~vout.raised
    /\ vout.valid <=> (1 <= vin.n /\ vin.n <= 500)
    /\ vout.valid => vout.errors = << >>
    /\ ~vout.valid =>
         /\ Len(vout.errors) = 1
         /\ vout.errors[1].field = "metrics"
         /\ vout.errors[1].kind = (IF vin.n = 0 THEN "empty" ELSE "size")

\* A batch of exactly 500 valid records has been accepted
C17_Witness ==
  vin.op = "batch" /\ vin.n = 500 /\ vout.called /\ vout.valid

\* The ranges as the claim declares them; hi = -1: no upper limit
ClaimedRanges ==
  { << "heartRate", 30, 220 >>, << "bpSystolic", 60, 280 >>,
    << "bpDiastolic", 30, 150 >>, << "spO2", 70, 100 >>,
    << "temperature", 35, 41 >>, << "bloodGlucose", 50, 500 >>,
    << "totalSleep", 0, 1440 >>, << "deepSleep", 0, 1440 >>,
    << "lightSleep", 0, 1440 >>, << "stress", 0, 100 >>, << "mai", 0, 100 >>,
    << "met", 0, 20 >>, << "steps", 0, -1 >>, << "calories", 0, -1 >>,
    << "distance", 0, -1 >> }

\* C18: an otherwise valid record whose range-checked field f holds the
\* integer v has an empty violation list exactly when v lies in the declared
\* range of f, both limits included; for steps, calories and distance,
\* exactly when v >= 0.
C18_InclusiveBoundaries ==
  (vin.op = "metric" /\ vout.called /\ vin.field \in RuleNames /\ vin.val.t = "int") =>
    \E c \in ClaimedRanges :
      /\ c[1] = vin.field
      /\ (~vout.raised /\ vout.errors = << >>)
           <=> (c[2] <= vin.val.v /\ (c[3] = -1 \/ vin.val.v <= c[3]))

\* A record with heartRate 220, the upper limit itself, has been validated
\* without violation
C18_Witness ==
  /\ vin = Case("metric", "heartRate", IntV(220), 0)
  /\ vout.called /\ vout.errors = << >> /\ ~vout.raised

\* C19: a record in which an optional field of the validation table,
\* isWearing included, is present with null gets no violation for that
\* field, as when the field is absent.  (Fails for isWearing, whose check
\* does not skip null.)
C19_NullIsNotMeasured ==
  (/\ vin.op = "metric" /\ vout.called
   /\ vin.field \in RuleNames \cup {"isWearing"} /\ vin.val = NullV) =>
    /\ ~vout.raised
    /\ \A n \in 1..Len(vout.errors) : vout.errors[n].field # vin.field


\* C20: when a record of a validated batch carries a timestamp that cannot
\* be converted, the batch fails as a whole: the answer is a 500 error body,
\* no record of the batch is persisted and the record is not counted as a
\* failed record beside committed siblings.  (Fails: the conversion raises
\* inside the per-record try, the record is counted in failedCount and the
\* other records are committed.)
C20_UnconvertibleTimestampFatal ==
  \A w \in Workers :
    (/\ pc[w] = "done" /\ request[w].kind = "list" /\ session[w].closes = 1
     /\ \E j \in 0..(BatchLen(w) - 1) :
          ~TimestampConverts(MetricAt(w, j)["timestamp"])) =>
      /\ response[w].status = 500
      /\ response[w].error # ""
      /\ response[w].failedCount = 0
      /\ store = before[w]


\* C21: the answer to a committed batch in which f records failed carries
\* min(f, 5) errors: those of the first five failing records, in increasing
\* index order, one per failing record; failedCount is f, the cap does not
\* apply to it; a record whose timestamp cannot be converted is among the
\* failing ones.
C21_ErrorsIndexedOrderedCapped ==
  \A w \in Workers :
    AnsweredCommitted(w) =>
      /\ response[w].failedCount = Len(errors[w])
      /\ response[w].failedCount = Cardinality(FailedIdx(w))
      /\ Len(response[w].errors) = Min(response[w].failedCount, 5)
      /\ \A k \in 1..Len(response[w].errors) :
           /\ response[w].errors[k] = errors[w][k]
           /\ Cardinality({ j \in FailedIdx(w) : j < errors[w][k].index }) = k - 1
      /\ \A j \in 0..(BatchLen(w) - 1) :
           ~TimestampConverts(MetricAt(w, j)["timestamp"]) => j \in FailedIdx(w)
      /\ FailedIdx(w) \subseteq 0..(BatchLen(w) - 1)

\* Six records of a committed batch failed: five errors are returned and
\* failedCount is 6
C21_Witness ==
  /\ AnsweredCommitted(1)
  /\ response[1].failedCount = 6
  /\ Len(response[1].errors) = 5
  /\ response[1].errors[5].index = 4


\* The kinds of the violations the call reported for the field under test
KindsReported == { vout.errors[n].kind : n \in { m \in 1..Len(vout.errors) :
                                                  vout.errors[m].field = vin.field } }

\* The typed check of the field under test
RuleOf(field) == CHOOSE r \in { FieldRules[k] : k \in 1..Len(FieldRules) } : r.name = field

\* C22: for a typed field, a value of another type than the declared one (a
\* string, an array, an object, or a JSON boolean where a number or an
\* integer is declared) gets the type violation of that field, no range
\* violation, and is never accepted; a value of the declared type outside
\* the range gets the range violation and not the type violation.  (Fails
\* for a JSON boolean: Python's bool is an int, so true passes the
\* isinstance test and is range-checked as 1.)
C22_TypeVersusRange ==
  (vin.op = "metric" /\ vout.called /\ vin.field \in RuleNames) =>
    /\ vin.val.t \in {"str", "list", "dict", "bool"} =>
         (~vout.raised /\ KindsReported = {"type"})
    /\ (/\ vin.val.t = "float" /\ RuleOf(vin.field).type = "integer") =>
         (~vout.raised /\ KindsReported = {"type"})
    /\ (/\ vin.val.t = "int"
        /\ \/ vin.val.v < RuleOf(vin.field).lo
           \/ (RuleOf(vin.field).hi # -1 /\ vin.val.v > RuleOf(vin.field).hi)) =>
         (~vout.raised /\ KindsReported = {"range"})


\* C23: while the loop runs, inserted_count + failed_count is the number of
\* records visited; the result returned for a batch of n records has
\* inserted + failed = n and success exactly when failed = 0.  inserted
\* counts the statements that executed without error, not the rows: it is
\* the number of statements executed less the ones the store rejected.
C23_CountConservation ==
  \A w \in Workers :
    /\ pc[w] = "loop" =>
         /\ inserted_count[w] + failed_count[w] = i[w]
         /\ failed_count[w] = Len(errors[w])
    /\ AnsweredCommitted(w) =>
         /\ response[w].syncedCount + response[w].failedCount = BatchLen(w)
         /\ response[w].success <=> (response[w].failedCount = 0)
         /\ response[w].syncedCount =
              session[w].executes
                - Cardinality({ n \in 1..Len(errors[w]) : errors[w][n].kind = "store" })

\* Six records of one natural key were all written: syncedCount is 6 and
\* the table holds one row
C23_Witness ==
  /\ AnsweredCommitted(1)
  /\ BatchLen(1) = 6
  /\ response[1].syncedCount = 6 /\ response[1].failedCount = 0
  /\ response[1].success
  /\ Cardinality(store) = 1


\* C24: a session is closed once, when insert_or_update_metrics is left and
\* before the handler answers, on each of its exits (return after the
\* commit, failed commit then rollback, rollback raising as well); it is
\* not closed while the loop runs; rollback is called at most once, only
\* after a commit that failed, and never when the counts are answered.
C24_SessionLifecycle ==
  \A w \in Workers :
    /\ session[w].closes <= 1 /\ session[w].rollbacks <= 1
    /\ pc[w] \in {"session", "loop"} =>
         (session[w].closes = 0 /\ session[w].rollbacks = 0 /\ session[w].commits = 0)
    /\ (pc[w] = "done" /\ session[w].state # "none") =>
         /\ session[w].state = "closed"
         /\ session[w].closes = 1 /\ session[w].commits = 1
    /\ session[w].state = "none" => session[w].closes = 0
    /\ session[w].rollbacks = 1 =>
         /\ session[w].commits = 1
         /\ response[w].error = "Database insertion failed"
    /\ (pc[w] = "done" /\ response[w].error = "") => session[w].rollbacks = 0

\* The commit failed and the rollback raised too: its exception was
\* answered and the session is closed once
C24_Witness ==
  /\ pc[1] = "done"
  /\ session[1].commits = 1 /\ session[1].rollbacks = 1
  /\ response[1].message.of = "store"
  /\ session[1].closes = 1 /\ session[1].state = "closed"

=============================================================================
